---- MODULE Spec2Model ----
(***************************************************************************)
(* Model of screen_scraper.ipynb: the valuation function npv_fcf and the   *)
(* batch driver trackr that scrapes one security at a time, calls npv_fcf  *)
(* and collects one row per ticker.                                        *)
(*                                                                         *)
(* Numbers.  Python floats and numpy float64 values are modelled as exact  *)
(* rationals n/d in lowest terms (d > 0), extended with the three IEEE     *)
(* specials that float64 division produces: 1/0 is +inf, -1/0 is -inf and  *)
(* 0/0 is NaN.  Rounding is not modelled.                                  *)
(***************************************************************************)
EXTENDS Integers, Sequences, FiniteSets, TLC

(***************************************************************************)
(* Bounds of the model.                                                    *)
(***************************************************************************)
MaxYears == 3
NumCalls == 2
MaxTickers == 2

(***************************************************************************)
(* Extended rational arithmetic.                                           *)
(***************************************************************************)
Abs(i) == IF i < 0 THEN 0 - i ELSE i

Sign(i) == IF i < 0 THEN 0 - 1 ELSE IF i > 0 THEN 1 ELSE 0

RECURSIVE GCD(_, _)
GCD(a, b) == IF b = 0 THEN a ELSE GCD(b, a % b)

LCM(a, b) == (a \div GCD(a, b)) * b

\* n/d with d >= 0, brought to lowest terms; d = 0 gives inf, -inf or NaN
Norm(n, d) ==
    IF d = 0 THEN [n |-> Sign(n), d |-> 0]
    ELSE LET g == GCD(Abs(n), d) IN [n |-> n \div g, d |-> d \div g]

Q(n, d) == Norm(n, d)

Zero == Q(0, 1)
One == Q(1, 1)
NaN == [n |-> 0, d |-> 0]
\* a name that holds no value (an unbound local, an unset column, None)
NoValue == [n |-> 0, d |-> 0 - 1]

IsNumber(x) == x.d >= 0
IsFinite(x) == x.d > 0
IsZero(x) == x.d > 0 /\ x.n = 0

Neg(x) == [n |-> 0 - x.n, d |-> x.d]

Add(x, y) ==
    IF x.d = 0 /\ y.d = 0 THEN (IF x = y THEN x ELSE NaN)
    ELSE IF x.d = 0 THEN x
    ELSE IF y.d = 0 THEN y
    ELSE LET l == LCM(x.d, y.d)
         IN Norm(x.n * (l \div x.d) + y.n * (l \div y.d), l)

Sub(x, y) == Add(x, Neg(y))

Mul(x, y) == Norm(x.n * y.n, x.d * y.d)

\* float64 true division: x/0 is inf, -inf or NaN, never an exception
Div(x, y) == Norm(x.n * y.d * (IF y.n < 0 THEN 0 - 1 ELSE 1), x.d * Abs(y.n))

Lt(x, y) == IsFinite(x) /\ IsFinite(y) /\ Sub(x, y).n < 0

\* the builtin sum: starts from 0 and adds left to right
RECURSIVE SumSeq(_)
SumSeq(s) == IF s = <<>> THEN Zero ELSE Add(SumSeq(SubSeq(s, 1, Len(s) - 1)), s[Len(s)])

(***************************************************************************)
(* npv_fcf, statement by statement.                                        *)
(***************************************************************************)
\* (variant: range(1, years))
InRangeShort(year, years) == year < years
\* for year in range(1, years+1): the body runs for year = 1..years
InRange(year, years) == year <= years

\* (variant: the growth rate is decayed before it is used)
StepFcfDecayFirst(fcf, growth_rate, discount_rate, growth_decline_rate) ==
    Div(Mul(fcf, Add(One, Mul(growth_rate, Sub(One, growth_decline_rate)))),
        Add(One, discount_rate))
\* (variant: compounds at the discount rate instead of discounting)
StepFcfCompound(fcf, growth_rate, discount_rate, growth_decline_rate) ==
    Mul(Mul(fcf, Add(One, growth_rate)), Add(One, discount_rate))
\* fcf = fcf * (1 + growth_rate)/((1 + discount_rate))
StepFcf(fcf, growth_rate, discount_rate, growth_decline_rate) ==
    Div(Mul(fcf, Add(One, growth_rate)), Add(One, discount_rate))

\* growth_rate = growth_rate * (1-growth_decline_rate)
StepGrowth(growth_rate, growth_decline_rate) ==
    Mul(growth_rate, Sub(One, growth_decline_rate))

\* Python scalars raise ZeroDivisionError on a zero divisor; a pandas Series
\* (numpy float64) divides to inf/NaN instead
DivisionRaises(a) == (~a.series) /\ IsZero(Add(One, a.discount_rate))

\* (variant: the debt is appended without its sign changed)
AppendTailDebtAdded(npv, final_fcf, multiplier, cash_on_hand, total_debt) ==
    npv \o <<Mul(final_fcf, multiplier), cash_on_hand, total_debt>>
\* max_year_fcf_value = final_fcf * multiplier, then the three appends
AppendTail(npv, final_fcf, multiplier, cash_on_hand, total_debt) ==
    npv \o <<Mul(final_fcf, multiplier), cash_on_hand, Neg(total_debt)>>

\* the locals of a call that has not started
IdleFrame ==
    [pc |-> "idle", fcf |-> NoValue, growth_rate |-> NoValue, final_fcf |-> NoValue,
     npv |-> <<>>, year |-> 0, ret |-> NoValue, exc |-> "none"]

\* (variant: growth_rate survives from the previous call)
NewFrameStale(a, old) ==
    [pc |-> "loop", fcf |-> a.fcf,
     growth_rate |-> IF old.pc = "idle" THEN a.growth_rate ELSE old.growth_rate,
     final_fcf |-> NoValue, npv |-> <<>>, year |-> 1, ret |-> NoValue, exc |-> "none"]
\* the locals on entry: parameters bound to the arguments, npv = []
NewFrame(a, old) ==
    [pc |-> "loop", fcf |-> a.fcf, growth_rate |-> a.growth_rate,
     final_fcf |-> NoValue, npv |-> <<>>, year |-> 1, ret |-> NoValue, exc |-> "none"]

\* one iteration of the for loop
LoopBody(f, a) ==
    IF DivisionRaises(a)
    THEN [f EXCEPT !.pc = "raised", !.exc = "ZeroDivisionError"]
    ELSE LET v == StepFcf(f.fcf, f.growth_rate, a.discount_rate, a.growth_decline_rate)
         IN [f EXCEPT !.fcf = v,
                      !.growth_rate = StepGrowth(f.growth_rate, a.growth_decline_rate),
                      !.final_fcf = v,
                      !.npv = Append(f.npv, v),
                      !.year = f.year + 1]

\* the statements after the loop, up to return sum(npv)
LoopExit(f, a) ==
    IF f.final_fcf = NoValue
    THEN [f EXCEPT !.pc = "raised", !.exc = "UnboundLocalError"]
    ELSE LET l == AppendTail(f.npv, f.final_fcf, a.multiplier, a.cash_on_hand, a.total_debt)
         IN [f EXCEPT !.pc = "done", !.npv = l, !.ret = SumSeq(l)]

\* the whole call as a function of its arguments
RECURSIVE RunFrame(_, _)
RunFrame(f, a) ==
    IF f.pc # "loop" THEN f
    ELSE IF InRange(f.year, a.years) THEN RunFrame(LoopBody(f, a), a)
    ELSE LoopExit(f, a)

npv_fcf(a) == RunFrame(NewFrame(a, IdleFrame), a)

(***************************************************************************)
(* State.  args[c] are the argument values the caller of call c holds,     *)
(* frames[c] the locals of call c.  The remaining variables are trackr's   *)
(* parameters and locals; stock_frame is what trackr returns.              *)
(***************************************************************************)
VARIABLES args, frames, stocks, params, tickers, idx, stock_cat, quotes, tpc, texc,
          stock_frame

vars ==
    <<args, frames, stocks, params, tickers, idx, stock_cat, quotes, tpc, texc, stock_frame>>
trackr_vars == <<stocks, params, tickers, idx, stock_cat, quotes, tpc, texc, stock_frame>>

\* (variant: the locals are module-level names shared by all calls)
LocalsShared(c) == 1
\* the frame in which call c keeps its locals: every call has its own
LocalsOf(c) == c

(***************************************************************************)
(* Inputs of npv_fcf called on its own.                                    *)
(***************************************************************************)
Fcfs == {Q(0 - 3, 1), Q(0, 1), Q(2, 1)}
Rates == {Q(0 - 1, 1), Q(0 - 1, 2), Q(0, 1), Q(1, 1)}
Growths == {Q(0 - 2, 1), Q(0 - 1, 1), Q(0 - 1, 2), Q(0, 1), Q(1, 1)}
Declines == {Q(0, 1), Q(1, 2)}
Multipliers == {Q(12, 1)}
Cash == {Q(0, 1), Q(5, 1)}
Debts == {Q(0, 1), Q(3, 1)}
Years == (0 - 1) .. MaxYears

ArgSet ==
    [fcf : Fcfs, discount_rate : Rates, years : Years, growth_rate : Growths,
     multiplier : Multipliers, growth_decline_rate : Declines,
     cash_on_hand : Cash, total_debt : Debts, series : BOOLEAN]

NoArgs ==
    [fcf |-> NoValue, discount_rate |-> NoValue, years |-> 0, growth_rate |-> NoValue,
     multiplier |-> NoValue, growth_decline_rate |-> NoValue,
     cash_on_hand |-> NoValue, total_debt |-> NoValue, series |-> TRUE]

\* the smaller input set of the calls that run side by side
ParArgSet ==
    [fcf : {Q(2, 1)}, discount_rate : {Q(0, 1), Q(1, 1)}, years : {1, MaxYears},
     growth_rate : {Q(0 - 1, 2), Q(1, 1)}, multiplier : Multipliers,
     growth_decline_rate : {Q(1, 2)}, cash_on_hand : {Q(5, 1)},
     total_debt : {Q(3, 1)}, series : {TRUE}]

NoRow ==
    [Ticker |-> <<>>, fcf |-> NoValue, cash |-> NoValue, debt |-> NoValue,
     shares |-> NoValue, growth |-> NoValue, price |-> NoValue,
     dcf |-> NoValue, share_price |-> NoValue, multiple |-> NoValue]

NoParams ==
    [margin_of_safety |-> NoValue, discount_rate |-> NoValue, growth_decline |-> NoValue,
     years |-> 0, multiplier |-> NoValue, yahoo_adjust |-> NoValue]

TrackrIdle ==
    /\ stocks = [isdict |-> FALSE, keys |-> <<>>]
    /\ params = NoParams
    /\ tickers = <<>>
    /\ idx = 0
    /\ stock_cat = NoRow
    /\ quotes = <<>>
    /\ tpc = "idle"
    /\ texc = "none"
    /\ stock_frame = <<>>

(***************************************************************************)
(* The steps of a call of npv_fcf.                                         *)
(***************************************************************************)
\* the call: parameters are bound, npv = []
NpvCall(c) ==
    /\ tpc = "idle"
    /\ frames[LocalsOf(c)].pc = "idle"
    /\ frames' = [frames EXCEPT ![LocalsOf(c)] = NewFrame(args[c], @)]
    /\ UNCHANGED <<args, trackr_vars>>

\* one pass through the body of the for loop
NpvLoop(c) ==
    /\ frames[LocalsOf(c)].pc = "loop"
    /\ InRange(frames[LocalsOf(c)].year, args[c].years)
    /\ frames' = [frames EXCEPT ![LocalsOf(c)] = LoopBody(@, args[c])]
    /\ UNCHANGED <<args, trackr_vars>>

\* the loop is exhausted: terminal value, cash, debt, return sum(npv)
NpvExit(c) ==
    /\ frames[LocalsOf(c)].pc = "loop"
    /\ ~InRange(frames[LocalsOf(c)].year, args[c].years)
    /\ frames' = [frames EXCEPT ![LocalsOf(c)] = LoopExit(@, args[c])]
    /\ UNCHANGED <<args, trackr_vars>>

(***************************************************************************)
(* npv_fcf called on its own, once.                                        *)
(***************************************************************************)
Init ==
    /\ args \in [{1} -> ArgSet]
    /\ frames = [c \in {1} |-> IdleFrame]
    /\ TrackrIdle

Next == NpvCall(1) \/ NpvLoop(1) \/ NpvExit(1)

Spec == Init /\ [][Next]_vars

(***************************************************************************)
(* NumCalls calls of npv_fcf whose steps interleave.                       *)
(***************************************************************************)
InitPar ==
    /\ args \in [1 .. NumCalls -> ParArgSet]
    /\ frames = [c \in 1 .. NumCalls |-> IdleFrame]
    /\ TrackrIdle

NextPar == \E c \in 1 .. NumCalls : NpvCall(c) \/ NpvLoop(c) \/ NpvExit(c)

SpecPar == InitPar /\ [][NextPar]_vars

(***************************************************************************)
(* trackr: inputs.                                                         *)
(***************************************************************************)
\* ticker symbols, as sequences of characters
TickerPool == {<<"t">>, <<"V", "z">>, <<"k", "o">>}

\* str.upper on the characters that occur in the pool
UpperChar(ch) ==
    CASE ch = "t" -> "T"
      [] ch = "v" -> "V"
      [] ch = "z" -> "Z"
      [] ch = "k" -> "K"
      [] ch = "o" -> "O"
      [] OTHER -> ch

\* (variant: the ticker is stored as typed)
UpperKeepsCase(s) == s
\* ticker.upper()
Upper(s) == [i \in 1 .. Len(s) |-> UpperChar(s[i])]

\* the keys of a dict, in insertion order: no key twice
KeySeqs ==
    UNION {{k \in [1 .. n -> TickerPool] : \A i, j \in 1 .. n : k[i] = k[j] => i = j} :
           n \in 0 .. MaxTickers}

\* what the caller passes as stocks: a dict, or something else (a list)
StocksSet ==
    {[isdict |-> TRUE, keys |-> k] : k \in KeySeqs}
        \cup {[isdict |-> FALSE, keys |-> <<<<"t">>>>]}

\* the keyword arguments of trackr
TrackrParamSet ==
    [margin_of_safety : {Q(1, 4)}, discount_rate : {Q(0 - 1, 1), Q(1, 1)},
     growth_decline : {Q(1, 2)}, years : {0, 1, MaxYears}, multiplier : Multipliers,
     yahoo_adjust : {Q(1000, 1)}]

\* what the pages of one ticker hold: table cells in thousands, the shares as
\* a number with an M or B suffix, the growth estimate in percent, and a
\* previous close that is a number or some other text (NoValue)
RawSet ==
    [cash_flow : {3}, capex : {0 - 1}, cash : {1}, debt : {2},
     shares : {Q(0 - 1, 1), Q(0, 1), Q(2, 1)}, suffix : {"M"},
     growth_pct : {Q(0 - 400, 1), Q(400, 1)}, prev_close : {NoValue, Q(2, 1)}]

\* np.nan_to_num(pd.to_numeric(col, errors='coerce')): text that is no
\* number becomes NaN and NaN becomes 0
Coerce(x) == IF IsFinite(x) THEN x ELSE Zero

ShareScale(suffix) == IF suffix = "B" THEN Q(1000000000, 1) ELSE Q(1000000, 1)

\* the columns of stock_cat after scraping and cleaning
Cleaned(raw, p) ==
    [NoRow EXCEPT
        !.fcf = Mul(Coerce(Q(raw.cash_flow + raw.capex, 1)), p.yahoo_adjust),
        !.cash = Mul(Coerce(Q(raw.cash, 1)), p.yahoo_adjust),
        !.debt = Mul(Coerce(Q(raw.debt, 1)), p.yahoo_adjust),
        !.shares = Coerce(Mul(raw.shares, ShareScale(raw.suffix))),
        !.growth = Coerce(Mul(Div(raw.growth_pct, Q(100, 1)), Sub(One, p.margin_of_safety))),
        !.price = Coerce(raw.prev_close)]

\* the arguments trackr passes to npv_fcf
CallArgs(sc, p) ==
    [fcf |-> sc.fcf, discount_rate |-> p.discount_rate, years |-> p.years,
     growth_rate |-> sc.growth, multiplier |-> p.multiplier,
     growth_decline_rate |-> p.growth_decline, cash_on_hand |-> sc.cash,
     total_debt |-> sc.debt, series |-> TRUE]

\* (variant: the row is appended before the multiple is computed)
StageAfterSkipsMultiple(stage) ==
    CASE stage = "npv" -> "share"
      [] stage = "share" -> "append"
      [] stage = "multiple" -> "append"
      [] OTHER -> "for"
\* the order of the statements that follow the call of npv_fcf
StageAfter(stage) ==
    CASE stage = "npv" -> "share"
      [] stage = "share" -> "multiple"
      [] stage = "multiple" -> "append"
      [] OTHER -> "for"

(***************************************************************************)
(* trackr: steps.                                                          *)
(***************************************************************************)
\* the type check, tickers = list(stocks.keys()), quotes = []
TrackrStart ==
    /\ tpc = "start"
    /\ IF stocks.isdict
       THEN /\ tickers' = stocks.keys
            /\ idx' = 1
            /\ tpc' = "for"
       ELSE /\ tpc' = "returned_none"
            /\ UNCHANGED <<tickers, idx>>
    /\ quotes' = <<>>
    /\ UNCHANGED <<args, frames, stocks, params, stock_cat, texc, stock_frame>>

\* the head of the for loop; after the last ticker the frame is built, and
\* set_index('Date') raises KeyError on a frame that has no rows
TrackrFor ==
    /\ tpc = "for"
    /\ IF idx <= Len(tickers)
       THEN /\ tpc' = "scrape"
            /\ UNCHANGED <<texc, stock_frame>>
       ELSE IF quotes = <<>>
       THEN /\ tpc' = "raised"
            /\ texc' = "KeyError"
            /\ UNCHANGED stock_frame
       ELSE /\ tpc' = "returned"
            /\ stock_frame' = quotes
            /\ UNCHANGED texc
    /\ UNCHANGED <<args, frames, stocks, params, tickers, idx, stock_cat, quotes>>

\* the pages are read and the columns cleaned
TrackrScrape ==
    /\ tpc = "scrape"
    /\ \E raw \in RawSet : stock_cat' = Cleaned(raw, params)
    /\ tpc' = "call"
    /\ UNCHANGED <<args, frames, stocks, params, tickers, idx, quotes, texc, stock_frame>>

\* a page cannot be read, a table is missing or a cell does not parse
TrackrScrapeFails ==
    /\ tpc = "scrape"
    /\ tpc' = "raised"
    /\ texc' = "ScrapeError"
    /\ UNCHANGED <<args, frames, stocks, params, tickers, idx, stock_cat, quotes, stock_frame>>

\* npv_fcf is called with columns of stock_cat
TrackrCallNpv ==
    /\ tpc = "call"
    /\ args' = [args EXCEPT ![1] = CallArgs(stock_cat, params)]
    /\ frames' = [frames EXCEPT ![1] = NewFrame(CallArgs(stock_cat, params), @)]
    /\ tpc' = "npv"
    /\ UNCHANGED <<stocks, params, tickers, idx, stock_cat, quotes, texc, stock_frame>>

\* npv_fcf returns into stock_cat['DCF Value'], or its exception leaves trackr
TrackrNpvReturn ==
    /\ tpc = "npv"
    /\ frames[1].pc \in {"done", "raised"}
    /\ IF frames[1].pc = "done"
       THEN /\ stock_cat' = [stock_cat EXCEPT !.dcf = frames[1].ret]
            /\ tpc' = StageAfter("npv")
            /\ UNCHANGED texc
       ELSE /\ tpc' = "raised"
            /\ texc' = frames[1].exc
            /\ UNCHANGED stock_cat
    /\ UNCHANGED <<args, frames, stocks, params, tickers, idx, quotes, stock_frame>>

\* stock_cat['DCF Share Price'] = DCF Value / Approx Shares Outstanding
TrackrSharePrice ==
    /\ tpc = "share"
    /\ stock_cat' = [stock_cat EXCEPT !.share_price = Div(stock_cat.dcf, stock_cat.shares)]
    /\ tpc' = StageAfter("share")
    /\ UNCHANGED <<args, frames, stocks, params, tickers, idx, quotes, texc, stock_frame>>

\* stock_cat['DCF/Price Multiple'] = DCF Share Price / Previous Close
TrackrMultiple ==
    /\ tpc = "multiple"
    /\ stock_cat' = [stock_cat EXCEPT !.multiple = Div(stock_cat.share_price, stock_cat.price)]
    /\ tpc' = StageAfter("multiple")
    /\ UNCHANGED <<args, frames, stocks, params, tickers, idx, quotes, texc, stock_frame>>

\* the display columns are set and the row is appended to quotes
TrackrAppend ==
    /\ tpc = "append"
    /\ quotes' = Append(quotes, [stock_cat EXCEPT !.Ticker = Upper(tickers[idx])])
    /\ stock_cat' = [stock_cat EXCEPT !.Ticker = Upper(tickers[idx])]
    /\ idx' = idx + 1
    /\ tpc' = StageAfter("append")
    /\ UNCHANGED <<args, frames, stocks, params, tickers, texc, stock_frame>>

InitTrackr ==
    /\ args = [c \in {1} |-> NoArgs]
    /\ frames = [c \in {1} |-> IdleFrame]
    /\ stocks \in StocksSet
    /\ params \in TrackrParamSet
    /\ tickers = <<>>
    /\ idx = 0
    /\ stock_cat = NoRow
    /\ quotes = <<>>
    /\ tpc = "start"
    /\ texc = "none"
    /\ stock_frame = <<>>

NextTrackr ==
    \/ TrackrStart
    \/ TrackrFor
    \/ TrackrScrape
    \/ TrackrScrapeFails
    \/ TrackrCallNpv
    \/ NpvLoop(1)
    \/ NpvExit(1)
    \/ TrackrNpvReturn
    \/ TrackrSharePrice
    \/ TrackrMultiple
    \/ TrackrAppend

SpecTrackr == InitTrackr /\ [][NextTrackr]_vars

(***************************************************************************)
(* The projection in closed form, as the properties below state it.        *)
(***************************************************************************)
RECURSIVE Pow(_, _)
Pow(x, n) == IF n <= 0 THEN One ELSE Mul(Pow(x, n - 1), x)

\* g_k: the growth rate passed in, decayed k-1 times
GrowthAt(a, k) == Mul(a.growth_rate, Pow(Sub(One, a.growth_decline_rate), k - 1))

\* the k-th projected value; the 0-th is the initial fcf
RECURSIVE Projected(_, _)
Projected(a, k) ==
    IF k <= 0 THEN a.fcf
    ELSE Div(Mul(Projected(a, k - 1), Add(One, GrowthAt(a, k))), Add(One, a.discount_rate))

RECURSIVE SumProjected(_, _)
SumProjected(a, n) == IF n <= 0 THEN Zero ELSE Add(SumProjected(a, n - 1), Projected(a, n))

MinusOne == Q(0 - 1, 1)

\* the inputs the projection is specified for
ValidArgs(a) ==
    /\ a.years >= 1
    /\ Lt(MinusOne, a.discount_rate)
    /\ Lt(MinusOne, a.growth_decline_rate) /\ Lt(a.growth_decline_rate, One)

\* the number of values the loop of call c has appended so far
NumProjected(c) == frames[c].year - 1

(***************************************************************************)
(* Properties of npv_fcf called on its own (Spec).                         *)
(***************************************************************************)
\* C1: for valid inputs with years >= 1 the loop appends one value per year
\* 1..years, exactly years values when it ends, and the last of them is the
\* value the terminal value is computed from.
C1_ExactlyYearsValues ==
    \A c \in DOMAIN frames :
        LET f == frames[c]
            a == args[c]
        IN  ValidArgs(a) =>
                /\ f.pc = "loop" => Len(f.npv) = f.year - 1 /\ f.year <= a.years + 1
                /\ f.pc = "loop" /\ f.year > a.years =>
                       Len(f.npv) = a.years /\ f.final_fcf = f.npv[a.years]
                /\ f.pc = "done" =>
                       /\ Len(f.npv) = a.years + 3
                       /\ f.final_fcf = f.npv[a.years]
                       /\ f.npv[a.years + 1] = Mul(f.npv[a.years], a.multiplier)
                /\ f.pc # "raised"

C1_Witness ==
    /\ frames[1].pc = "done"
    /\ ValidArgs(args[1])
    /\ args[1].years = MaxYears
    /\ Len(frames[1].npv) = MaxYears + 3

C3_IntrinsicValue ==
    \A c \in DOMAIN frames :
        LET f == frames[c]
            a == args[c]
        IN  ValidArgs(a) /\ f.pc = "done" =>
                f.ret = Sub(Add(Add(SumProjected(a, a.years),
                                    Mul(Projected(a, a.years), a.multiplier)),
                                a.cash_on_hand),
                            a.total_debt)

C3_Witness ==
    /\ frames[1].pc = "done"
    /\ ValidArgs(args[1])
    /\ args[1].years >= 2
    /\ ~IsZero(args[1].fcf)
    /\ ~IsZero(args[1].cash_on_hand)
    /\ ~IsZero(args[1].total_debt)
    /\ IsFinite(frames[1].ret)

\* C6: with years <= 0 or discount_rate = -1 the call ends with an
\* InvalidConfiguration error and returns no value.
C6_InvalidConfigurationReported ==
    \A c \in DOMAIN frames :
        LET f == frames[c]
            a == args[c]
        IN  f.pc \in {"done", "raised"} /\ (a.years <= 0 \/ a.discount_rate = MinusOne) =>
                /\ f.pc = "raised"
                /\ f.exc = "InvalidConfiguration"
                /\ ~IsNumber(f.ret)

\* the k-th projected value of the call with the arguments a and the
\* discount rate r
ProjectedWith(a, r, k) == npv_fcf([a EXCEPT !.discount_rate = r, !.years = k]).npv[k]

\* C9 as stated: for positive fcf and valid inputs, negative growth rates
\* included, a strictly larger discount rate gives a strictly smaller value
\* at every position of the projection.
C9_MonotoneAnyGrowth ==
    \A c \in DOMAIN frames :
        LET f == frames[c]
            a == args[c]
        IN  ValidArgs(a) /\ f.pc \in {"loop", "done"} /\ Lt(Zero, a.fcf) =>
                \A r \in Rates : \A k \in 1 .. NumProjected(c) :
                    Lt(a.discount_rate, r) => Lt(ProjectedWith(a, r, k), f.npv[k])

\* C9 amended: the same, for growth rates above -1.
C9_MonotoneGrowthAboveMinusOne ==
    \A c \in DOMAIN frames :
        LET f == frames[c]
            a == args[c]
        IN  /\ ValidArgs(a)
            /\ f.pc \in {"loop", "done"}
            /\ Lt(Zero, a.fcf)
            /\ Lt(MinusOne, a.growth_rate)
            => \A r \in Rates : \A k \in 1 .. NumProjected(c) :
                   Lt(a.discount_rate, r) => Lt(ProjectedWith(a, r, k), f.npv[k])

C9_Witness ==
    /\ frames[1].pc = "done"
    /\ ValidArgs(args[1])
    /\ args[1].years >= 2
    /\ Lt(Zero, args[1].fcf)
    /\ Lt(MinusOne, args[1].growth_rate) /\ Lt(args[1].growth_rate, Zero)
    /\ args[1].discount_rate = Zero
    /\ Lt(ProjectedWith(args[1], One, 2), frames[1].npv[2])

(***************************************************************************)
(* Properties of calls that run side by side (SpecPar).                    *)
(***************************************************************************)
\* C10: whatever the interleaving of the steps of the calls, each call ends
\* as it ends when it runs alone: same value returned, same exception.
C10_IndependentCalls ==
    \A c \in DOMAIN frames :
        frames[c].pc \in {"done", "raised"} =>
            /\ frames[c].pc = npv_fcf(args[c]).pc
            /\ frames[c].ret = npv_fcf(args[c]).ret
            /\ frames[c].exc = npv_fcf(args[c]).exc
            /\ frames[c].npv = npv_fcf(args[c]).npv

C10_Witness ==
    /\ DOMAIN frames = 1 .. NumCalls
    /\ frames[1].pc = "done"
    /\ frames[2].pc = "loop" /\ frames[2].year >= 2
    /\ args[1] # args[2]
    /\ frames[1].ret = npv_fcf(args[1]).ret
    /\ frames[1].ret # npv_fcf(args[2]).ret

(***************************************************************************)
(* Properties of trackr (SpecTrackr).                                      *)
(***************************************************************************)
Rows(q) == {q[i] : i \in 1 .. Len(q)}

\* C4: when the shares outstanding are zero or negative the valuation fails:
\* no share price and no multiple is produced, and no row is emitted.
C4_NonPositiveSharesFail ==
    /\ IsNumber(stock_cat.shares) /\ stock_cat.shares.n <= 0 =>
           ~IsNumber(stock_cat.share_price) /\ ~IsNumber(stock_cat.multiple)
    /\ \A row \in Rows(quotes) \cup Rows(stock_frame) : row.shares.n > 0

\* C5: when the previous close is 0 the valuation fails, and no non-finite
\* multiple is stored in a row or returned.
C5_ZeroPriceFails ==
    /\ IsNumber(stock_cat.price) /\ IsZero(stock_cat.price) => ~IsNumber(stock_cat.multiple)
    /\ \A row \in Rows(quotes) \cup Rows(stock_frame) :
           ~IsZero(row.price) /\ IsFinite(row.multiple)

RowComplete(row) ==
    IsNumber(row.dcf) /\ IsNumber(row.share_price) /\ IsNumber(row.multiple)

\* C7: a row is appended only after DCF value, share price and multiple have
\* all been computed; when an exception ends the computation of a ticker, that
\* ticker has no row and trackr returns no frame.
C7_AllOrNothing ==
    /\ \A row \in Rows(quotes) \cup Rows(stock_frame) : RowComplete(row)
    /\ tpc = "raised" => stock_frame = <<>>
    /\ tpc \in {"raised", "scrape", "call", "npv", "share", "multiple", "append"} =>
           Len(quotes) = idx - 1

C7_Witness ==
    /\ tpc = "raised"
    /\ texc = "ScrapeError"
    /\ Len(quotes) = 1
    /\ RowComplete(quotes[1])
    /\ stock_frame = <<>>

SameInputs(r1, r2) ==
    /\ r1.fcf = r2.fcf
    /\ r1.growth = r2.growth
    /\ r1.cash = r2.cash
    /\ r1.debt = r2.debt

\* C8: two valuations with identical inputs give identical DCF values,
\* whatever was valued in between, and after the call the caller's columns
\* still hold the values that were passed.
C8_Deterministic ==
    /\ \A i, j \in 1 .. Len(quotes) :
           SameInputs(quotes[i], quotes[j]) => quotes[i].dcf = quotes[j].dcf
    /\ tpc \in {"npv", "share", "multiple", "append"} =>
           args[1] = CallArgs(stock_cat, params)
    /\ tpc \in {"share", "multiple", "append"} => stock_cat.dcf = npv_fcf(args[1]).ret

C8_Witness ==
    /\ Len(quotes) >= 2
    /\ SameInputs(quotes[1], quotes[2])
    /\ IsFinite(quotes[1].dcf)
    /\ ~IsZero(quotes[1].growth)
    /\ params.years >= 2
    /\ quotes[1].dcf = quotes[2].dcf

(***************************************************************************)
(* The DCF formula of the notebook's text,                                 *)
(*   DCF = fcf_y*m + sum_{i=1..y} fcf_i,                                   *)
(*   fcf_i = fcf_(i-1) * (1 + (g_(i-1)*gd)) / (1+r),                       *)
(* with fcf_0 the free cash flow passed in.  The text does not say how the *)
(* g_i follow from g; both readings are written down: g_i = g for every i, *)
(* and g_0 = g, g_i = g_(i-1)*gd.                                          *)
(***************************************************************************)
\* g_(i-1)*gd with every g_i equal to g
DocGrowthConstant(a, i) == Mul(a.growth_rate, a.growth_decline_rate)

\* g_(i-1)*gd with g_0 = g and g_i = g_(i-1)*gd
DocGrowthDeclining(a, i) == Mul(a.growth_rate, Pow(a.growth_decline_rate, i))

RECURSIVE DocFcf(_, _, _)
DocFcf(a, i, declining) ==
    IF i <= 0 THEN a.fcf
    ELSE Div(Mul(DocFcf(a, i - 1, declining),
                 Add(One, IF declining THEN DocGrowthDeclining(a, i)
                                       ELSE DocGrowthConstant(a, i))),
             Add(One, a.discount_rate))

RECURSIVE DocSum(_, _, _)
DocSum(a, n, declining) ==
    IF n <= 0 THEN Zero ELSE Add(DocSum(a, n - 1, declining), DocFcf(a, n, declining))

DocDCF(a, declining) ==
    Add(Mul(DocFcf(a, a.years, declining), a.multiplier), DocSum(a, a.years, declining))

\* C11: the value npv_fcf returns is the DCF of the documented formula,
\* fcf_y*m + sum of fcf_i with fcf_i = fcf_(i-1)*(1 + (g_(i-1)*gd))/(1+r).
\* Either reading of g_i is accepted, and so is the formula with the cash
\* added and the debt subtracted, which the text leaves out.
C11_ModelsDocumentedDCF ==
    \A c \in DOMAIN frames :
        LET f == frames[c]
            a == args[c]
        IN  ValidArgs(a) /\ f.pc = "done" =>
                \E declining \in BOOLEAN :
                    \/ f.ret = DocDCF(a, declining)
                    \/ f.ret = Sub(Add(DocDCF(a, declining), a.cash_on_hand), a.total_debt)

(***************************************************************************)
(* Properties of the rows trackr collects (SpecTrackr).                    *)
(***************************************************************************)
\* the tickers of the pool in upper case, written out
UpperCased(k) ==
    CASE k = <<"t">> -> <<"T">>
      [] k = <<"V", "z">> -> <<"V", "Z">>
      [] k = <<"k", "o">> -> <<"K", "O">>

\* the first n rows of q belong to the first n keys of stocks, in key order
RowsFollowKeys(q, n) ==
    /\ Len(q) = n
    /\ \A i \in 1 .. n : q[i].Ticker = UpperCased(stocks.keys[i])

\* C12: trackr takes the keys of stocks one at a time in key order and has
\* appended exactly one row per completed iteration; a frame it returns
\* holds exactly one row per key, in key order, with the key in upper case
\* as its Ticker; when stocks is no dict it returns no frame and processes
\* no ticker.
C12_OneRowPerKey ==
    /\ stocks.isdict /\ tpc # "start" =>
           /\ tickers = stocks.keys
           /\ idx \in 1 .. Len(tickers) + 1
           /\ RowsFollowKeys(quotes, idx - 1)
           /\ tpc \in {"scrape", "call", "npv", "share", "multiple", "append"} =>
                  idx <= Len(tickers)
    /\ tpc = "returned" =>
           /\ stocks.isdict
           /\ idx = Len(stocks.keys) + 1
           /\ RowsFollowKeys(stock_frame, Len(stocks.keys))
    /\ tpc # "returned" => stock_frame = <<>>
    /\ ~stocks.isdict =>
           /\ tpc \in {"start", "returned_none"}
           /\ tickers = <<>> /\ idx = 0
           /\ quotes = <<>> /\ stock_cat = NoRow
           /\ frames[1].pc = "idle"

C12_Witness ==
    /\ tpc = "returned"
    /\ stocks.keys = <<<<"V", "z">>, <<"t">>>>
    /\ Len(stock_frame) = 2
    /\ stock_frame[1].Ticker = <<"V", "Z">>
    /\ stock_frame[2].Ticker = <<"T">>

====
